---- MODULE Spec2Model ----
(***************************************************************************)
(* Model of the generation orchestration in src/App.tsx: the React state   *)
(* of the App component, its event handlers, and the asynchronous          *)
(* handleGenerate whose continuations resume when the external clients     *)
(* (generateNarration, generateImage) settle.                              *)
(*                                                                         *)
(* A handler runs to completion or to its next await in one step (the      *)
(* JavaScript event loop), and React re-renders between events, so a       *)
(* handler invoked by an event sees the state of the latest render.  An    *)
(* invocation of handleGenerate keeps the values of the render it was      *)
(* created in (its closure) across its awaits.                             *)
(*                                                                         *)
(* The speaking rate and the voice are values that the narration section   *)
(* stores and handleGenerate hands to generateNarration unread.  The model *)
(* keeps them at their useState defaults (the rate in tenths) and passes   *)
(* them to the call; the slider and the voice buttons are not modelled.    *)
(***************************************************************************)
EXTENDS Integers, Sequences, FiniteSets, TLC

\* Longest text typed into the narration / visual prompt boxes.
MaxLen == 1
\* Length of a generated audio clip, in playback steps.
AudioLength == 2

\* null of a string-valued field, and null of the result state.
NULL == "null"
NoResult == [isNull |-> TRUE]
\* audioRef.current while no audio element is mounted.
NoAudio == [isNull |-> TRUE]

\* Characters of the typed texts: one whitespace character, one other.
Chars == {" ", "a"}
Texts == UNION {[1..n -> Chars] : n \in 0..MaxLen}

\* Values of the API key input; the empty string is a value it can hold.
Keys == {"", "k1"}
Modes == {"both", "image", "narration"}

\* Outcomes of the external clients: a handle, or a thrown value that is an
\* Error carrying a message, or a thrown value that is not an Error.
AudioHandles == {"blob:audio1"}
ImageHandles == {"data:image1"}
NarrationFailures == {[isError |-> TRUE, message |-> "TTS request failed"],
                      [isError |-> FALSE, message |-> NULL]}
ImageFailures == {[isError |-> TRUE, message |-> "Image request failed"],
                  [isError |-> FALSE, message |-> NULL]}

VARIABLES
  apiKey,             \* useState('')
  showKeyInput,       \* useState(false)
  storedKey,          \* localStorage 'GEMINI_API_KEY' (NULL when absent)
  narrationInput,
  visualPromptInput,
  speakingRate,
  selectedVoice,
  generationMode,
  generationState,    \* [isGenerating, stage, error, progressMessage]
  result,             \* GeneratedContent or NoResult
  inflight,           \* suspended handleGenerate invocations
  isPlaying,          \* useState(false)
  audio,              \* the audio element behind audioRef, or NoAudio
  runMode,            \* history: mode of the last accepted start
  runKey,             \* history: apiKey of the last accepted start
  log,                \* history: client events since the last accepted start
  lastStart           \* history: what the last click on Generate did

vars == <<apiKey, showKeyInput, storedKey, narrationInput, visualPromptInput,
          speakingRate, selectedVoice, generationMode, generationState,
          result, inflight, isPlaying, audio, runMode, runKey,
          log, lastStart>>

uiInputs == <<narrationInput, visualPromptInput, speakingRate, selectedVoice,
              generationMode>>
keyState == <<apiKey, showKeyInput, storedKey>>
runState == <<generationState, result, inflight, runMode, runKey, log>>
playback == <<isPlaying, audio>>

----------------------------------------------------------------------------
\* String.prototype.trim on a text: drop leading and trailing whitespace.
RECURSIVE TrimStart(_)
TrimStart(s) ==
  IF s = <<>> THEN <<>>
  ELSE IF Head(s) = " " THEN TrimStart(Tail(s)) ELSE s

RECURSIVE TrimEnd(_)
TrimEnd(s) ==
  IF s = <<>> THEN <<>>
  ELSE IF s[Len(s)] = " " THEN TrimEnd(SubSeq(s, 1, Len(s) - 1)) ELSE s

Trim(s) == TrimEnd(TrimStart(s))

\* Variant: a check for the empty text that does not trim.
IsEmpty(s) == s = <<>>
\* !text.trim()
IsBlank(s) == Trim(s) = <<>>

\* Variant: no credential check.
CredentialNeverMissing(key) == FALSE
\* !apiKey
MissingCredential(key) == key = ""

needsNarration(mode) == mode = "both" \/ mode = "narration"
\* Variant: the image job required by every mode.
needsImageAlways(mode) == TRUE
needsImage(mode) == mode = "both" \/ mode = "image"

InitialGenerationState ==
  [isGenerating |-> FALSE, stage |-> "idle", error |-> NULL,
   progressMessage |-> ""]

----------------------------------------------------------------------------
\* The component after its first render and mount effect: the effect reads
\* the stored key and either adopts it or opens the key prompt.
Init ==
  /\ storedKey \in {NULL} \cup Keys
  /\ apiKey = IF storedKey \in {NULL, ""} THEN "" ELSE storedKey
  /\ showKeyInput = (storedKey \in {NULL, ""})
  /\ narrationInput = <<>>
  /\ visualPromptInput = <<>>
  /\ speakingRate = 10
  /\ selectedVoice = "Kore"
  /\ generationMode = "both"
  /\ generationState = InitialGenerationState
  /\ result = NoResult
  /\ inflight = {}
  /\ isPlaying = FALSE
  /\ audio = NoAudio
  /\ runMode = NULL
  /\ runKey = NULL
  /\ log = <<>>
  /\ lastStart = "none"

\* Rendering guards of the JSX: which controls exist in the current render.
KeyModalRendered == showKeyInput
ChangeKeyRendered == apiKey # ""
\* Variant: the input form rendered next to the results.
FormAlwaysRendered == TRUE
FormRendered == result = NoResult
NarrationSectionRendered == FormRendered /\ needsNarration(generationMode)
VisualSectionRendered == FormRendered /\ needsImage(generationMode)
\* Variant: the "Create New" button rendered in every state.
ResultsAlwaysRendered == TRUE
ResultsRendered == result # NoResult
\* Variant: a Generate button that is never disabled.
GenerateNeverDisabled == FALSE
\* disabled={generationState.isGenerating} on the Generate button
GenerateDisabled == generationState.isGenerating

----------------------------------------------------------------------------
\* Credential handlers.
saveApiKey(key) ==
  /\ KeyModalRendered
  /\ storedKey' = key
  /\ apiKey' = key
  /\ showKeyInput' = FALSE
  /\ UNCHANGED <<uiInputs, runState, playback, lastStart>>

removeApiKey ==
  /\ ChangeKeyRendered
  /\ storedKey' = NULL
  /\ apiKey' = ""
  /\ showKeyInput' = TRUE
  /\ UNCHANGED <<uiInputs, runState, playback, lastStart>>

\* Input controls.
setGenerationMode(mode) ==
  /\ generationMode' = mode
  /\ UNCHANGED <<narrationInput, visualPromptInput, speakingRate,
                 selectedVoice, keyState, runState, playback, lastStart>>

setNarrationInput(text) ==
  /\ NarrationSectionRendered
  /\ narrationInput' = text
  /\ UNCHANGED <<visualPromptInput, speakingRate, selectedVoice,
                 generationMode, keyState, runState, playback, lastStart>>

setVisualPromptInput(text) ==
  /\ VisualSectionRendered
  /\ visualPromptInput' = text
  /\ UNCHANGED <<narrationInput, speakingRate, selectedVoice,
                 generationMode, keyState, runState, playback, lastStart>>

----------------------------------------------------------------------------
\* The client events recorded in log.
ClientOf(pc) == IF pc = "awaitNarration" THEN "narration" ELSE "image"
Called(client) ==
  [client |-> client, event |-> "call", value |-> [none |-> TRUE]]
Returned(client, handle) ==
  [client |-> client, event |-> "ok", value |-> [handle |-> handle]]
Threw(client, failure) ==
  [client |-> client, event |-> "fail", value |-> failure]

\* handleGenerate, up to its first await.

\* The validation of the required texts; NULL when the inputs pass.
ValidationError(mode, narration, visual) ==
  IF needsNarration(mode) /\ IsBlank(narration)
    THEN "Please provide narration text."
  ELSE IF needsImage(mode) /\ IsBlank(visual)
    THEN "Please provide a visual description."
  ELSE NULL

\* Variant: an error state that keeps the progress message it replaces.
ErrorStateKeepsProgress(message) ==
  [isGenerating |-> FALSE, stage |-> "error", error |-> message,
   progressMessage |-> generationState.progressMessage]
ErrorState(message) ==
  [isGenerating |-> FALSE, stage |-> "error", error |-> message,
   progressMessage |-> ""]

\* The state published when a run is accepted.
GeneratingState(mode) ==
  [isGenerating |-> TRUE,
   stage |-> IF needsNarration(mode) THEN "generating-audio"
             ELSE "generating-visuals",
   error |-> NULL,
   progressMessage |-> IF needsNarration(mode)
                       THEN "Generating Voiceover (TTS)..."
                       ELSE "Generating Visuals..."]

CompleteState ==
  [isGenerating |-> FALSE, stage |-> "complete", error |-> NULL,
   progressMessage |-> "Generation Complete!"]

\* Variant: the calls made with the key of the latest render.
PendingCallLatestKey(r) ==
  IF r.pc = "awaitNarration"
  THEN [client |-> "narration", text |-> r.narrationInput,
        apiKey |-> apiKey, speakingRate |-> r.speakingRate,
        voice |-> r.selectedVoice]
  ELSE [client |-> "image", text |-> r.visualPromptInput,
        apiKey |-> apiKey]
\* The arguments of the call an invocation is parked on.
PendingCall(r) ==
  IF r.pc = "awaitNarration"
  THEN [client |-> "narration", text |-> r.narrationInput,
        apiKey |-> r.apiKey, speakingRate |-> r.speakingRate,
        voice |-> r.selectedVoice]
  ELSE [client |-> "image", text |-> r.visualPromptInput,
        apiKey |-> r.apiKey]

\* A suspended invocation: the await it is parked on, the values of the
\* render it closed over, and its local audioUrl.
Invocation(pc, audioUrl) ==
  [pc |-> pc,
   apiKey |-> apiKey,
   generationMode |-> generationMode,
   narrationInput |-> narrationInput,
   visualPromptInput |-> visualPromptInput,
   speakingRate |-> speakingRate,
   selectedVoice |-> selectedVoice,
   audioUrl |-> audioUrl]

\* Variant: the image call issued first.
FirstAwaitImage(mode) ==
  IF needsImage(mode) THEN "awaitImage" ELSE "awaitNarration"
\* The first await of an accepted run: the narration call when narration is
\* needed, the image call otherwise.
FirstAwait(mode) ==
  IF needsNarration(mode) THEN "awaitNarration" ELSE "awaitImage"

\* Variant: the texts validated before the credential is looked at.
handleGenerateValidatesFirst ==
  LET err == ValidationError(generationMode, narrationInput,
                             visualPromptInput)
  IN IF err # NULL
     THEN /\ generationState' = ErrorState(err)
          /\ lastStart' = "invalid"
          /\ UNCHANGED <<keyState, uiInputs, result, inflight, runMode,
                         runKey, log, playback>>
     ELSE IF MissingCredential(apiKey)
     THEN /\ showKeyInput' = TRUE
          /\ lastStart' = "noKey"
          /\ UNCHANGED <<apiKey, storedKey, uiInputs, runState, playback>>
     ELSE /\ generationState' = GeneratingState(generationMode)
          /\ inflight' = inflight \cup
                         {Invocation(FirstAwait(generationMode), NULL)}
          /\ runMode' = generationMode
          /\ runKey' = apiKey
          /\ log' = <<Called(ClientOf(FirstAwait(generationMode)))>>
          /\ lastStart' = "accepted"
          /\ UNCHANGED <<keyState, uiInputs, result, playback>>

handleGenerate ==
  IF MissingCredential(apiKey)
  THEN /\ showKeyInput' = TRUE
       /\ lastStart' = "noKey"
       /\ UNCHANGED <<apiKey, storedKey, uiInputs, runState, playback>>
  ELSE LET err == ValidationError(generationMode, narrationInput,
                                  visualPromptInput)
       IN IF err # NULL
          THEN /\ generationState' = ErrorState(err)
               /\ lastStart' = "invalid"
               /\ UNCHANGED <<keyState, uiInputs, result, inflight, runMode,
                              runKey,
                              log, playback>>
          ELSE /\ generationState' = GeneratingState(generationMode)
               /\ inflight' = inflight \cup
                              {Invocation(FirstAwait(generationMode), NULL)}
               /\ runMode' = generationMode
               /\ runKey' = apiKey
               /\ log' = <<Called(ClientOf(FirstAwait(generationMode)))>>
               /\ lastStart' = "accepted"
               /\ UNCHANGED <<keyState, uiInputs, result, playback>>

\* A click on the Generate button: nothing runs while it is disabled.
clickGenerate ==
  /\ FormRendered
  /\ IF GenerateDisabled
     THEN /\ lastStart' = "disabled"
          /\ UNCHANGED <<keyState, uiInputs, runState, playback>>
     ELSE handleGenerate

----------------------------------------------------------------------------
\* handleGenerate, resumed when a client settles.

\* Variant: the artifact assembled from the state of the latest render.
GeneratedContentFromState(r, audioUrl, imageUrl) ==
  [audioUrl |-> audioUrl,
   imageUrl |-> imageUrl,
   narrationText |-> narrationInput,
   visualPrompt |-> visualPromptInput,
   mode |-> generationMode]
\* The artifact assembled from the invocation's closure.
GeneratedContent(r, audioUrl, imageUrl) ==
  [audioUrl |-> audioUrl,
   imageUrl |-> imageUrl,
   narrationText |-> r.narrationInput,
   visualPrompt |-> r.visualPromptInput,
   mode |-> r.generationMode]

\* Variant: the message field of whatever was thrown, Error or not.
ErrorMessageVerbatim(failure) == failure.message
\* Variant: the fallback message for every failure.
ErrorMessageGeneric(failure) == "An unexpected error occurred."
\* The catch block: an Error's own message, the fallback otherwise.
ErrorMessage(failure) ==
  IF failure.isError THEN failure.message
  ELSE "An unexpected error occurred."

\* Variant: the switch to the image job as a new object that does not
\* spread prev, so that isGenerating is not carried over.
VisualsStateNotSpread(prev) ==
  [isGenerating |-> FALSE, stage |-> "generating-visuals", error |-> NULL,
   progressMessage |-> "Generating 16:9 Visuals with Gemini Flash..."]
\* Variant: the switch to the image job without a state update.
VisualsStateStale(prev) == prev
\* setGenerationState(prev => ({...prev, stage, progressMessage}))
VisualsState(prev) ==
  [prev EXCEPT !.stage = "generating-visuals",
               !.progressMessage =
                 "Generating 16:9 Visuals with Gemini Flash..."]

\* The audio element as mounted: paused at the start of the clip.
MountedAudio ==
  [paused |-> TRUE, ended |-> FALSE, currentTime |-> 0,
   endedQueued |-> FALSE]

\* The results render mounts an audio element when the result has an
\* audio handle.
complete(r, audioUrl, imageUrl) ==
  /\ result' = GeneratedContent(r, audioUrl, imageUrl)
  /\ generationState' = CompleteState
  /\ inflight' = inflight \ {r}
  /\ audio' = IF audioUrl # NULL THEN MountedAudio ELSE NoAudio

\* Variant: a run that completes right after the narration call.
ImageNeverFollows(r) == FALSE
\* Variant: the image job decided by the mode of the latest render.
ImageFollowsLatestMode(r) == needsImage(generationMode)
\* Whether the image call follows a narration call that returned a handle.
ImageFollows(r) == needsImage(r.generationMode)

narrationResolves(r, handle) ==
  /\ r \in inflight
  /\ r.pc = "awaitNarration"
  /\ IF ImageFollows(r)
     THEN /\ generationState' = VisualsState(generationState)
          /\ inflight' = (inflight \ {r}) \cup
                         {[r EXCEPT !.pc = "awaitImage", !.audioUrl = handle]}
          /\ log' = log \o <<Returned("narration", handle), Called("image")>>
          /\ UNCHANGED <<result, audio>>
     ELSE /\ complete(r, handle, NULL)
          /\ log' = Append(log, Returned("narration", handle))
  /\ UNCHANGED <<keyState, uiInputs, isPlaying, runMode, runKey,
                 lastStart>>

imageResolves(r, handle) ==
  /\ r \in inflight
  /\ r.pc = "awaitImage"
  /\ complete(r, r.audioUrl, handle)
  /\ log' = Append(log, Returned("image", handle))
  /\ UNCHANGED <<keyState, uiInputs, isPlaying, runMode, runKey,
                 lastStart>>

\* Variant: a try block around the narration call only, the image job
\* attempted whatever the narration call did.
callRejectsContinues(r, failure) ==
  /\ r \in inflight
  /\ failure \in IF r.pc = "awaitNarration" THEN NarrationFailures
                 ELSE ImageFailures
  /\ IF r.pc = "awaitNarration" /\ needsImage(r.generationMode)
     THEN /\ generationState' = VisualsState(generationState)
          /\ inflight' = (inflight \ {r}) \cup {[r EXCEPT !.pc = "awaitImage"]}
          /\ log' = log \o <<Threw("narration", failure), Called("image")>>
     ELSE /\ generationState' = ErrorState(ErrorMessage(failure))
          /\ inflight' = inflight \ {r}
          /\ log' = Append(log, Threw(ClientOf(r.pc), failure))
  /\ UNCHANGED <<keyState, uiInputs, result, playback, runMode, runKey,
                 lastStart>>

\* Variant: a failed call issued once more before the run gives up.
callRejectsRetries(r, failure) ==
  /\ r \in inflight
  /\ failure \in IF r.pc = "awaitNarration" THEN NarrationFailures
                 ELSE ImageFailures
  /\ IF Len(log) < 4
     THEN /\ log' = log \o <<Threw(ClientOf(r.pc), failure),
                              Called(ClientOf(r.pc))>>
          /\ UNCHANGED <<generationState, inflight>>
     ELSE /\ generationState' = ErrorState(ErrorMessage(failure))
          /\ inflight' = inflight \ {r}
          /\ log' = Append(log, Threw(ClientOf(r.pc), failure))
  /\ UNCHANGED <<keyState, uiInputs, result, playback, runMode, runKey,
                 lastStart>>

\* Either await throwing lands in the catch block.
callRejects(r, failure) ==
  /\ r \in inflight
  /\ failure \in IF r.pc = "awaitNarration" THEN NarrationFailures
                 ELSE ImageFailures
  /\ generationState' = ErrorState(ErrorMessage(failure))
  /\ inflight' = inflight \ {r}
  /\ log' = Append(log, Threw(ClientOf(r.pc), failure))
  /\ UNCHANGED <<keyState, uiInputs, result, playback, runMode, runKey,
                 lastStart>>

\* "Create New": rendered with the results only.  The render that follows
\* has no result and so unmounts the audio element; isPlaying is not set.
reset ==
  /\ ResultsRendered
  /\ result' = NoResult
  /\ generationState' = InitialGenerationState
  /\ narrationInput' = <<>>
  /\ visualPromptInput' = <<>>
  /\ audio' = NoAudio
  /\ UNCHANGED <<speakingRate, selectedVoice, generationMode, keyState,
                 inflight, isPlaying, runMode, runKey, log,
                 lastStart>>

----------------------------------------------------------------------------
\* Playback.

\* The play buttons and the audio element are rendered with a result that
\* has an audio handle; audioRef.current is then the element.
PlayRendered == result # NoResult /\ result.audioUrl # NULL /\ audio # NoAudio

\* Variant: playback resumed where the element stands, never rewound.
ResumePositionKept(a) == a.currentTime
\* if (audioRef.current.ended) audioRef.current.currentTime = 0
ResumePosition(a) == IF a.ended THEN 0 ELSE a.currentTime

togglePlay ==
  /\ PlayRendered
  /\ IF isPlaying
     THEN audio' = [audio EXCEPT !.paused = TRUE]
     ELSE audio' = [audio EXCEPT !.paused = FALSE,
                                 !.ended = FALSE,
                                 !.currentTime = ResumePosition(audio)]
  /\ isPlaying' = ~isPlaying
  /\ UNCHANGED <<keyState, uiInputs, runState, lastStart>>

\* The element playing on by one step; at the end of the clip it stops and
\* queues its ended event.
audioAdvances ==
  /\ audio # NoAudio
  /\ ~audio.paused
  /\ audio.currentTime < AudioLength
  /\ audio' = IF audio.currentTime + 1 = AudioLength
              THEN [paused |-> TRUE, ended |-> TRUE,
                    currentTime |-> AudioLength, endedQueued |-> TRUE]
              ELSE [audio EXCEPT !.currentTime = @ + 1]
  /\ UNCHANGED <<keyState, uiInputs, runState, isPlaying, lastStart>>

\* Variant: an ended handler that leaves the flag as it is.
EndedPlayingKept(playing) == playing
\* setIsPlaying(false)
EndedPlaying(playing) == FALSE

\* onEnded of the audio element.
handleAudioEnded ==
  /\ audio # NoAudio
  /\ audio.endedQueued
  /\ isPlaying' = EndedPlaying(isPlaying)
  /\ audio' = [audio EXCEPT !.endedQueued = FALSE]
  /\ UNCHANGED <<keyState, uiInputs, runState, lastStart>>

----------------------------------------------------------------------------
Next ==
  \/ \E key \in Keys : saveApiKey(key)
  \/ removeApiKey
  \/ \E mode \in Modes : setGenerationMode(mode)
  \/ \E text \in Texts : setNarrationInput(text)
  \/ \E text \in Texts : setVisualPromptInput(text)
  \/ clickGenerate
  \/ \E r \in inflight : \E handle \in AudioHandles :
       narrationResolves(r, handle)
  \/ \E r \in inflight : \E handle \in ImageHandles : imageResolves(r, handle)
  \/ \E r \in inflight : \E failure \in NarrationFailures \cup ImageFailures :
       callRejects(r, failure)
  \/ reset
  \/ togglePlay
  \/ audioAdvances
  \/ handleAudioEnded

Spec == Init /\ [][Next]_vars

\* A pending client call settles: it returns a handle or it throws.
Settle ==
  \E r \in inflight :
    \/ \E handle \in AudioHandles : narrationResolves(r, handle)
    \/ \E handle \in ImageHandles : imageResolves(r, handle)
    \/ \E failure \in NarrationFailures \cup ImageFailures :
         callRejects(r, failure)

\* The program under the assumption that every issued call settles.
FairSpec == Init /\ [][Next]_vars /\ WF_vars(Settle)

----------------------------------------------------------------------------
\* Vocabulary of the properties.

ActiveStages == {"generating-audio", "generating-visuals"}
Active == generationState.stage \in ActiveStages

Calls(client) ==
  Cardinality({i \in DOMAIN log :
                 log[i].client = client /\ log[i].event = "call"})
Settled(client) ==
  Cardinality({i \in DOMAIN log :
                 log[i].client = client /\ log[i].event \in {"ok", "fail"}})
Pending(client) == Calls(client) > Settled(client)
Happened(client, event) ==
  \E i \in DOMAIN log : log[i].client = client /\ log[i].event = event

\* No click on Generate ran handleGenerate since the last accepted start.
RunCurrent == lastStart \in {"accepted", "disabled"}

AllWhitespace(text) == \A i \in DOMAIN text : text[i] = " "

----------------------------------------------------------------------------
\* C1: a click on Generate while a run is active (stage generating-audio or
\* generating-visuals) is rejected: it issues no client call and leaves the
\* generation state, the suspended invocation and the result as they were.
C1_StartWhileActiveRejected ==
  [][(Active /\ clickGenerate) =>
       /\ lastStart' = "disabled"
       /\ UNCHANGED <<generationState, inflight, log, result, runMode>>]_vars

C1_Witness ==
  /\ lastStart = "disabled"
  /\ Active
  /\ generationState.isGenerating
  /\ inflight # {}

\* C2: in a run started in mode both whose narration call failed, the image
\* client has not been called and the run has ended in stage error.
C2_NarrationFailureSkipsImage ==
  (runMode = "both" /\ Happened("narration", "fail")) =>
    /\ Calls("image") = 0
    /\ generationState.stage = "error"
    /\ ~generationState.isGenerating
    /\ inflight = {}

C2_Witness ==
  /\ runMode = "both"
  /\ Happened("narration", "fail")
  /\ RunCurrent
  /\ generationState.stage = "error"

\* C3 as stated: reset can be invoked from complete, from error and from the
\* in-progress stages.
C3_ResetFromAnyStage ==
  generationState.stage \in {"complete", "error"} \cup ActiveStages =>
    ENABLED reset

\* C3 as amended: reset is invoked from complete only, with no call pending;
\* it leaves no result, no error, an empty progress message and stage idle,
\* and that lasts until the next click on Generate.
C3_ResetFromCompleteStaysIdle ==
  [][/\ reset =>
          /\ generationState.stage = "complete"
          /\ inflight = {}
          /\ result' = NoResult
          /\ generationState' = InitialGenerationState
     /\ (result = NoResult /\ generationState = InitialGenerationState
           /\ ~clickGenerate) =>
          /\ result' = NoResult
          /\ generationState' = InitialGenerationState]_vars

C3_Witness ==
  /\ runMode # NULL
  /\ Happened("narration", "ok") \/ Happened("image", "ok")
  /\ result = NoResult
  /\ generationState = InitialGenerationState
  /\ inflight = {}

\* C4: no client call carries an empty credential; handleGenerate run with
\* an empty credential opens the key prompt, issues no call and leaves the
\* generation state alone (it does not publish an error).
C4_NoCallWithoutCredential ==
  [][/\ \A r \in inflight' : PendingCall(r).apiKey # ""
     /\ (apiKey = "" /\ ~GenerateDisabled /\ clickGenerate) =>
          /\ showKeyInput'
          /\ lastStart' = "noKey"
          /\ UNCHANGED <<generationState, inflight, log, result>>]_vars

C4_Witness ==
  /\ lastStart = "noKey"
  /\ apiKey = ""
  /\ showKeyInput
  /\ Calls("narration") = 0
  /\ Calls("image") = 0
  /\ generationState.stage = "idle"
  /\ ~AllWhitespace(narrationInput)
  /\ ~AllWhitespace(visualPromptInput)

\* C5: handleGenerate run with a credential: when a text the mode requires
\* is empty or whitespace-only, the state becomes error with the message of
\* such a text and no call is issued; otherwise the inputs pass validation.
C5_RequiredTextValidated ==
  [][(apiKey # "" /\ ~GenerateDisabled /\ clickGenerate) =>
       LET narrationMissing == /\ generationMode \in {"both", "narration"}
                               /\ AllWhitespace(narrationInput)
           visualMissing == /\ generationMode \in {"both", "image"}
                            /\ AllWhitespace(visualPromptInput)
       IN /\ (narrationMissing \/ visualMissing) =>
               /\ generationState'.stage = "error"
               /\ ~generationState'.isGenerating
               /\ generationState'.error \in
                    {m \in {"Please provide narration text.",
                            "Please provide a visual description."} :
                       \/ m = "Please provide narration text."
                          /\ narrationMissing
                       \/ m = "Please provide a visual description."
                          /\ visualMissing}
               /\ UNCHANGED <<inflight, log, result>>
          /\ ~(narrationMissing \/ visualMissing) =>
               /\ lastStart' = "accepted"
               /\ generationState'.stage \in ActiveStages]_vars

C5_Witness ==
  /\ lastStart = "invalid"
  /\ apiKey # ""
  /\ generationMode = "image"
  /\ visualPromptInput # <<>>
  /\ AllWhitespace(visualPromptInput)
  /\ generationState.stage = "error"
  /\ generationState.error = "Please provide a visual description."
  /\ inflight = {}

\* C6: in a run of mode both whose narration call returned a handle and
\* whose image call failed, the stage is error, the error is the message of
\* the image failure when it carries one, and there is no result: the audio
\* handle obtained earlier is not exposed.
C6_ImageFailureNoPartialResult ==
  \A i \in DOMAIN log :
    (/\ runMode = "both"
     /\ RunCurrent
     /\ Happened("narration", "ok")
     /\ log[i].client = "image"
     /\ log[i].event = "fail") =>
      /\ generationState.stage = "error"
      /\ ~generationState.isGenerating
      /\ log[i].value.isError =>
           generationState.error = log[i].value.message
      /\ generationState.error # NULL
      /\ result = NoResult
      /\ inflight = {}

C6_Witness ==
  /\ runMode = "both"
  /\ RunCurrent
  /\ Happened("narration", "ok")
  /\ Happened("image", "fail")
  /\ generationState.stage = "error"
  /\ generationState.error = "Image request failed"
  /\ result = NoResult

\* C7: in stage complete the result's audio handle is non-null exactly when
\* the run's mode required narration (both, narration) and its image handle
\* is non-null exactly when the mode required the image (both, image).
C7_HandlesMatchRequiredJobs ==
  generationState.stage = "complete" =>
    /\ result # NoResult
    /\ (result.audioUrl # NULL) <=> (runMode \in {"both", "narration"})
    /\ (result.imageUrl # NULL) <=> (runMode \in {"both", "image"})
    /\ result.mode = runMode

C7_Witness ==
  /\ generationState.stage = "complete"
  /\ runMode = "both"
  /\ result # NoResult
  /\ result.audioUrl \in AudioHandles
  /\ result.imageUrl \in ImageHandles

\* C8: when the image call of a run of mode image returns a handle, the
\* result has a null audio handle, that image handle, mode image, and the
\* narration text and visual prompt the invocation was started with.
C8_ImageOnlyArtifact ==
  [][\A r \in inflight : \A handle \in ImageHandles :
       (r.generationMode = "image" /\ imageResolves(r, handle)) =>
         result' = [audioUrl |-> NULL,
                    imageUrl |-> handle,
                    narrationText |-> r.narrationInput,
                    visualPrompt |-> r.visualPromptInput,
                    mode |-> "image"]]_vars

C8_Witness ==
  /\ generationState.stage = "complete"
  /\ runMode = "image"
  /\ result # NoResult
  /\ result.mode = "image"
  /\ result.audioUrl = NULL
  /\ result.imageUrl \in ImageHandles
  /\ result.narrationText # <<>>
  /\ narrationInput # result.narrationText
  /\ generationMode # "image"

\* C9: within a run each client is called at most once, the image call of a
\* run of mode both comes after the narration call returned a handle, and a
\* narration call and an image call are never pending together.
C9_SequentialCalls ==
  /\ Calls("narration") <= 1
  /\ Calls("image") <= 1
  /\ Cardinality(inflight) <= 1
  /\ ~(Pending("narration") /\ Pending("image"))
  /\ (inflight # {}) <=> (Pending("narration") \/ Pending("image"))
  /\ runMode = "both" =>
       \A i \in DOMAIN log :
         (log[i].client = "image" /\ log[i].event = "call") =>
           \E j \in 1..(i - 1) :
             log[j].client = "narration" /\ log[j].event = "ok"

C9_Witness ==
  /\ runMode = "both"
  /\ Calls("narration") = 1
  /\ Calls("image") = 1
  /\ Pending("image")
  /\ \E r \in inflight : r.pc = "awaitImage" /\ r.audioUrl \in AudioHandles

\* C10: the jobs derived from the mode are narration and image for both,
\* narration for narration, image for image, and the clients called in a
\* run are among the jobs of the run's mode.
C10_JobSetOfMode ==
  /\ \A mode \in Modes :
       /\ needsNarration(mode) <=> mode \in {"both", "narration"}
       /\ needsImage(mode) <=> mode \in {"both", "image"}
  /\ Calls("narration") > 0 => runMode \in {"both", "narration"}
  /\ Calls("image") > 0 => runMode \in {"both", "image"}

C10_Witness ==
  /\ runMode = "narration"
  /\ generationState.stage = "complete"
  /\ Calls("narration") = 1
  /\ Calls("image") = 0

\* C11: provided every issued call settles, an accepted run ends: a
\* suspended invocation leads to a state with none, in stage complete or
\* error with isGenerating false; and no call follows a failure in a run.
C11_AcceptedRunTerminates ==
  /\ (inflight # {}) ~>
       (/\ inflight = {}
        /\ generationState.stage \in {"complete", "error"}
        /\ ~generationState.isGenerating)
  /\ [](\A i \in DOMAIN log : \A j \in DOMAIN log :
          (i < j /\ log[i].event = "fail") => log[j].event # "call")

C11_Witness ==
  /\ lastStart = "accepted"
  /\ inflight = {}
  /\ Happened("narration", "ok")
  /\ Happened("image", "fail")
  /\ generationState.stage = "error"
  /\ ~generationState.isGenerating

\* Whether a text the mode of the current render requires is blank.
RequiredTextMissing ==
  \/ generationMode \in {"both", "narration"} /\ AllWhitespace(narrationInput)
  \/ generationMode \in {"both", "image"} /\ AllWhitespace(visualPromptInput)

ValidationMessages ==
  {"Please provide narration text.", "Please provide a visual description."}

\* C12 as stated: handleGenerate validates before it checks the credential:
\* with a required text blank it publishes the validation error whether or
\* not a credential is set, and it asks for the credential only when the
\* texts are valid.
C12_ValidationBeforeCredential ==
  [][(~GenerateDisabled /\ clickGenerate) =>
       /\ RequiredTextMissing =>
            /\ generationState'.stage = "error"
            /\ generationState'.error \in ValidationMessages
       /\ lastStart' = "noKey" => ~RequiredTextMissing]_vars

\* C12 as amended: handleGenerate checks the credential before it validates:
\* with no credential it opens the key prompt and leaves the generation
\* state alone whatever the texts are, and it publishes a validation error
\* only when a credential is set and a required text is blank.
C12_CredentialBeforeValidation ==
  [][(~GenerateDisabled /\ clickGenerate) =>
       /\ apiKey = "" =>
            /\ showKeyInput'
            /\ lastStart' = "noKey"
            /\ UNCHANGED <<generationState, inflight, log, result>>
       /\ (apiKey # "" /\ RequiredTextMissing) =>
            /\ lastStart' = "invalid"
            /\ generationState'.stage = "error"
            /\ generationState'.error \in ValidationMessages
       /\ lastStart' = "invalid" => (apiKey # "" /\ RequiredTextMissing)]_vars

C12_Witness ==
  /\ lastStart = "noKey"
  /\ apiKey = ""
  /\ showKeyInput
  /\ RequiredTextMissing
  /\ generationState = InitialGenerationState
  /\ inflight = {}

\* C13: a pending narration call has stage generating-audio and a pending
\* image call stage generating-visuals; a narration run is never in
\* generating-visuals nor an image run in generating-audio; the stage of a
\* both run changes to generating-visuals from generating-audio only and to
\* complete from generating-visuals only.
C13_StageMatchesPendingCall ==
  [][/\ \A r \in inflight' :
          generationState'.stage = IF r.pc = "awaitNarration"
                                   THEN "generating-audio"
                                   ELSE "generating-visuals"
     /\ runMode' = "narration" => generationState'.stage # "generating-visuals"
     /\ runMode' = "image" => generationState'.stage # "generating-audio"
     /\ (runMode' = "both" /\ generationState'.stage # generationState.stage) =>
          /\ generationState'.stage = "generating-audio" => clickGenerate
          /\ generationState'.stage = "generating-visuals" =>
               generationState.stage = "generating-audio"
          /\ generationState'.stage = "complete" =>
               generationState.stage = "generating-visuals"]_vars

C13_Witness ==
  /\ runMode = "both"
  /\ generationState.stage = "generating-visuals"
  /\ Happened("narration", "ok")
  /\ \E r \in inflight : r.pc = "awaitImage"

\* C14 as stated: the credential does not change while a run is active.
C14_CredentialFixedWhileActive ==
  [][Active => apiKey' = apiKey]_vars

\* C14 as amended: the credential can be cleared and set while a run is
\* active, and every call of the run carries the credential the run was
\* started with, which is not empty.
C14_RunKeepsStartCredential ==
  /\ \A r \in inflight :
       /\ PendingCall(r).apiKey = runKey
       /\ runKey # ""
  /\ Active => inflight # {}

C14_Witness ==
  /\ Active
  /\ runMode = "both"
  /\ apiKey = ""
  /\ storedKey = ""
  /\ \E r \in inflight :
       /\ r.pc = "awaitImage"
       /\ PendingCall(r).apiKey = "k1"

\* C15: the mode and the inputs of a run are those of its start: every call
\* carries the texts, voice and rate the invocation was started with, the
\* clients called are those of the start mode, and the result records the
\* start mode and texts, whatever the mode buttons and text boxes hold by
\* then.
C15_RunInputsFixedAtStart ==
  [][/\ \A r \in inflight' :
          /\ r.generationMode = runMode'
          /\ PendingCall(r).client \in
               IF runMode' = "both" THEN {"narration", "image"}
               ELSE {runMode'}
          /\ inflight = {} =>
               /\ clickGenerate
               /\ r.generationMode = generationMode
               /\ r.narrationInput = narrationInput
               /\ r.visualPromptInput = visualPromptInput
               /\ r.speakingRate = speakingRate
               /\ r.selectedVoice = selectedVoice
          /\ \A q \in inflight :
               /\ r.narrationInput = q.narrationInput
               /\ r.visualPromptInput = q.visualPromptInput
               /\ r.speakingRate = q.speakingRate
               /\ r.selectedVoice = q.selectedVoice
     /\ \A q \in inflight :
          (result' # NoResult /\ result = NoResult) =>
            /\ result'.mode = runMode
            /\ result'.narrationText = q.narrationInput
            /\ result'.visualPrompt = q.visualPromptInput
            /\ Calls("narration")' = IF runMode \in {"both", "narration"}
                                     THEN 1 ELSE 0
            /\ Calls("image")' = IF runMode \in {"both", "image"}
                                 THEN 1 ELSE 0]_vars

C15_Witness ==
  /\ generationState.stage = "complete"
  /\ result # NoResult
  /\ result.mode = "narration"
  /\ generationMode = "both"
  /\ narrationInput # result.narrationText
  /\ Calls("image") = 0

\* C16: error is non-null exactly in stage error; in stage error the
\* progress message is empty and isGenerating is false; an accepted start
\* clears the error.
C16_ErrorIffErrorStage ==
  [][/\ (generationState'.error # NULL) <=> (generationState'.stage = "error")
     /\ generationState'.stage = "error" =>
          /\ generationState'.progressMessage = ""
          /\ ~generationState'.isGenerating
     /\ (clickGenerate /\ lastStart' = "accepted") =>
          generationState'.error = NULL]_vars

C16_Witness ==
  /\ generationState.stage = "error"
  /\ generationState.error = "TTS request failed"
  /\ generationState.progressMessage = ""
  /\ Happened("narration", "fail")

\* C17: the ended handler of the audio element leaves isPlaying false
\* whatever it was, and leaves the generation state and the result alone.
C17_EndedForcesPaused ==
  [][handleAudioEnded =>
       /\ ~isPlaying'
       /\ UNCHANGED <<generationState, result, inflight>>]_vars

C17_Witness ==
  /\ audio # NoAudio
  /\ audio.ended
  /\ ~audio.endedQueued
  /\ ~isPlaying
  /\ generationState.stage = "complete"

\* C18: togglePlay with isPlaying true pauses the element where it stands
\* and sets isPlaying false; with isPlaying false it plays the element and
\* sets isPlaying true, from position 0 when the element had ended and from
\* its current position otherwise.
C18_ToggleSemantics ==
  [][togglePlay =>
       IF isPlaying
       THEN /\ audio'.paused
            /\ ~isPlaying'
            /\ audio'.currentTime = audio.currentTime
       ELSE /\ ~audio'.paused
            /\ isPlaying'
            /\ audio.ended => audio'.currentTime = 0
            /\ ~audio.ended => audio'.currentTime = audio.currentTime]_vars

\* A clip that ended is playing again from position 0, its ended event
\* still to be handled: it was paused by a click and replayed by the next.
C18_Witness ==
  /\ audio # NoAudio
  /\ isPlaying
  /\ ~audio.paused
  /\ ~audio.ended
  /\ audio.endedQueued
  /\ audio.currentTime = 0
  /\ generationState.stage = "complete"

\* C19: isPlaying is true only while a result with an audio handle is
\* present and its element is playing (or has just ended, its ended event
\* not handled yet).
C19_PlayingFlagMatchesAudio ==
  isPlaying =>
    /\ result # NoResult
    /\ result.audioUrl # NULL
    /\ audio # NoAudio
    /\ ~audio.paused \/ audio.endedQueued

\* C20: a result is present exactly in stage complete.
C20_ResultIffComplete ==
  (result # NoResult) <=> (generationState.stage = "complete")

C20_Witness ==
  /\ generationState.stage = "complete"
  /\ result # NoResult
  /\ result.audioUrl = NULL
  /\ result.imageUrl \in ImageHandles
  /\ inflight = {}

\* C21: isGenerating is true exactly in the stages generating-audio and
\* generating-visuals, and the Generate button is disabled exactly while a
\* call of the run is pending.
C21_GeneratingIffActiveStage ==
  /\ generationState.isGenerating <=> Active
  /\ GenerateDisabled <=> (inflight # {})
  /\ (inflight # {}) <=> (Pending("narration") \/ Pending("image"))

\* A both run after the functional update: its image call is pending.
C21_Witness ==
  /\ runMode = "both"
  /\ generationState.isGenerating
  /\ generationState.stage = "generating-visuals"
  /\ generationState.progressMessage =
       "Generating 16:9 Visuals with Gemini Flash..."
  /\ GenerateDisabled
  /\ Pending("image")
  /\ ~Pending("narration")

\* C22: a call that fails ends the run in stage error; the error shown is
\* the message of the thrown value when that is an Error, and
\* "An unexpected error occurred." when it is not.
C22_FailureMessageShown ==
  [][\A r \in inflight :
       \A failure \in NarrationFailures \cup ImageFailures :
         callRejects(r, failure) =>
           /\ generationState'.stage = "error"
           /\ ~generationState'.isGenerating
           /\ inflight' = {}
           /\ generationState'.error =
                IF failure.isError THEN failure.message
                ELSE "An unexpected error occurred."]_vars

\* The image call of a both run threw a value that is not an Error.
C22_Witness ==
  /\ generationState.stage = "error"
  /\ generationState.error = "An unexpected error occurred."
  /\ Happened("narration", "ok")
  /\ \E i \in DOMAIN log :
       /\ log[i].client = "image"
       /\ log[i].event = "fail"
       /\ ~log[i].value.isError

====
